---- MODULE Spec2Model ----
(***************************************************************************)
(* The multi-account registry of plugins/antigravity-auth                  *)
(* (lib/account-manager.ts, class AccountManager): an ordered store of     *)
(* accounts, one sticky pointer per model family, a global rotation        *)
(* cursor, and per-account rate-limit reset times per quota pool.          *)
(*                                                                         *)
(* Every method is a pure operator over a registry record                  *)
(*   [accounts, cursor, currentAccountIndexByFamily]                       *)
(* and the clock value, returning the new registry and the method's        *)
(* result; the actions apply these operators to the state variables.       *)
(* Sequences are 1-based here; the `index` field and the pointers keep     *)
(* the source's 0-based values.                                            *)
(***************************************************************************)
EXTENDS Integers, Sequences, FiniteSets, TLC

VARIABLES
    accounts,                       \* this.accounts
    cursor,                         \* this.cursor
    currentAccountIndexByFamily,    \* this.currentAccountIndexByFamily
    now,                            \* the clock read by nowMs()
    lastReturned                    \* per family, where the account object that the
                                    \* last getCurrentOrNextForFamily returned now is
                                    \* in the store (1-based; 0: none, or it has left)

vars == <<accounts, cursor, currentAccountIndexByFamily, now, lastReturned>>

\* ------------------------------------------------------------------ bounds
MaxAccounts == 3
MaxTime == 2
MaxCursor == 2
MaxLimited == 2

\* --------------------------------------------------------------- the types
Families == {"claude", "gemini"}
HeaderStyles == {"antigravity", "gemini-cli"}
QuotaKeys == {"claude", "gemini-antigravity", "gemini-cli"}

\* an optional field that is not set
Undefined == "undefined"
\* a method returning null (no account): position 0 of the 1-based store
Null == 0
\* the value of a sticky pointer when there is no account
NoAccount == -1

\* ------------------------------------------------------------ input domains
\* Credentials handed to addAccount: three unrelated ones (two of them are
\* StoreTokens), one that matches the first by email and another by refresh
\* token, and one without email that matches the first by refresh token.
Tokens(e, r, p) ==
    [email |-> e, refresh_token |-> r, project_id |-> p,
     access_token |-> "t1", expires_at |-> "x1"]

StoreTokens ==
    {Tokens("e1", "r1", "p1"), Tokens(Undefined, "r3", "p1")}

TokenInputs ==
    StoreTokens \cup {Tokens("e2", "r2", "p1"), Tokens("e1", "r2", "p2"),
                      Tokens(Undefined, "r1", "p2")}

RetryAfterMs == {1, 2}

\* ---------------------------------------------------------------- helpers
Min2(a, b) == IF a <= b THEN a ELSE b
Max2(a, b) == IF a >= b THEN a ELSE b
SetMin(S) == CHOOSE x \in S : \A y \in S : x <= y
Positions(accs) == 1..Len(accs)

\* (variant) the header style alone picks the pool
getQuotaKey_styleOnly(family, headerStyle) ==
    IF headerStyle = "gemini-cli" THEN "gemini-cli"
    ELSE IF family = "claude" THEN "claude" ELSE "gemini-antigravity"

getQuotaKey(family, headerStyle) ==
    IF family = "claude" THEN "claude"
    ELSE IF headerStyle = "gemini-cli" THEN "gemini-cli" ELSE "gemini-antigravity"

isRateLimitedForQuotaKey(account, key, t) ==
    /\ key \in DOMAIN account.rateLimitResetTimes
    /\ t < account.rateLimitResetTimes[key]

\* (variant) one limited gemini pool is enough
isRateLimitedForFamily_eitherPool(account, family, t) ==
    IF family = "claude"
    THEN isRateLimitedForQuotaKey(account, "claude", t)
    ELSE \/ isRateLimitedForQuotaKey(account, "gemini-antigravity", t)
         \/ isRateLimitedForQuotaKey(account, "gemini-cli", t)

isRateLimitedForFamily(account, family, t) ==
    IF family = "claude"
    THEN isRateLimitedForQuotaKey(account, "claude", t)
    ELSE /\ isRateLimitedForQuotaKey(account, "gemini-antigravity", t)
         /\ isRateLimitedForQuotaKey(account, "gemini-cli", t)

\* (variant) an entry is deleted only once the clock is past its reset time
clearExpiredRateLimits_strict(account, t) ==
    LET times == account.rateLimitResetTimes
        kept == {k \in DOMAIN times : ~(t > times[k])}
    IN  [account EXCEPT !.rateLimitResetTimes = [k \in kept |-> times[k]]]

clearExpiredRateLimits(account, t) ==
    LET times == account.rateLimitResetTimes
        kept == {k \in DOMAIN times : ~(t >= times[k])}
    IN  [account EXCEPT !.rateLimitResetTimes = [k \in kept |-> times[k]]]

\* an empty rateLimitResetTimes map
NoRateLimits == [k \in {} |-> 0]

\* the persisted `rateLimitResetTimes?`: left out, or a map
Omitted == << >>
Given(times) == <<times>>

\* what reading `.length` of an undefined `accounts` raises
TypeError == "TypeError"

\* the registry as one value
Registry(accs, cur, byFamily) ==
    [accounts |-> accs, cursor |-> cur, currentAccountIndexByFamily |-> byFamily]

EmptyRegistry ==
    Registry(<< >>, 0, [f \in Families |-> NoAccount])

\* ------------------------------------------------------------- the methods
\* Each returns [m |-> the registry afterwards, ret |-> the method's result].

\* (variant) the gemini pointer is restored from the stored claude index
loadFromStorage_claudeForBoth(m, data) ==
    IF data.isNull
    THEN [m |-> EmptyRegistry, ret |-> Undefined]
    ELSE IF ~data.hasAccounts
    THEN [m |-> m, ret |-> TypeError]
    ELSE IF Len(data.accounts) = 0
    THEN [m |-> EmptyRegistry, ret |-> Undefined]
    ELSE LET n == Len(data.accounts)
             accs == [i \in 1..n |->
                        [index |-> i - 1,
                         email |-> data.accounts[i].email,
                         projectId |-> data.accounts[i].projectId,
                         refreshToken |-> data.accounts[i].refreshToken,
                         accessToken |-> Undefined,
                         expiresAt |-> Undefined,
                         addedAt |-> data.accounts[i].addedAt,
                         lastUsed |-> data.accounts[i].lastUsed,
                         rateLimitResetTimes |->
                             IF data.accounts[i].rateLimitResetTimes = Omitted
                             THEN NoRateLimits
                             ELSE data.accounts[i].rateLimitResetTimes[1],
                         lastSwitchReason |-> Undefined]]
             claude == Max2(0, data.activeIndexByFamily["claude"]) % Max2(1, n)
             gemini == Max2(0, data.activeIndexByFamily["claude"]) % Max2(1, n)
         IN  [m |-> Registry(accs, claude,
                             [f \in Families |-> IF f = "claude" THEN claude ELSE gemini]),
              ret |-> Undefined]

\* (variant) a stored index beyond the end is clamped to the last account
\* instead of wrapped
loadFromStorage_clamped(m, data) ==
    IF data.isNull
    THEN [m |-> EmptyRegistry, ret |-> Undefined]
    ELSE IF ~data.hasAccounts
    THEN [m |-> m, ret |-> TypeError]
    ELSE IF Len(data.accounts) = 0
    THEN [m |-> EmptyRegistry, ret |-> Undefined]
    ELSE LET n == Len(data.accounts)
             accs == [i \in 1..n |->
                        [index |-> i - 1,
                         email |-> data.accounts[i].email,
                         projectId |-> data.accounts[i].projectId,
                         refreshToken |-> data.accounts[i].refreshToken,
                         accessToken |-> Undefined,
                         expiresAt |-> Undefined,
                         addedAt |-> data.accounts[i].addedAt,
                         lastUsed |-> data.accounts[i].lastUsed,
                         rateLimitResetTimes |->
                             IF data.accounts[i].rateLimitResetTimes = Omitted
                             THEN NoRateLimits
                             ELSE data.accounts[i].rateLimitResetTimes[1],
                         lastSwitchReason |-> Undefined]]
             claude == Min2(Max2(0, data.activeIndexByFamily["claude"]), n - 1)
             gemini == Min2(Max2(0, data.activeIndexByFamily["gemini"]), n - 1)
         IN  [m |-> Registry(accs, claude,
                             [f \in Families |-> IF f = "claude" THEN claude ELSE gemini]),
              ret |-> Undefined]

\* `data` is null, or an object whose `accounts` may be missing (hasAccounts
\* false): `!data` is tested first, then `data.accounts.length` is read.
loadFromStorage(m, data) ==
    IF data.isNull
    THEN [m |-> EmptyRegistry, ret |-> Undefined]
    ELSE IF ~data.hasAccounts
    THEN [m |-> m, ret |-> TypeError]
    ELSE IF Len(data.accounts) = 0
    THEN [m |-> EmptyRegistry, ret |-> Undefined]
    ELSE LET n == Len(data.accounts)
             accs == [i \in 1..n |->
                        [index |-> i - 1,
                         email |-> data.accounts[i].email,
                         projectId |-> data.accounts[i].projectId,
                         refreshToken |-> data.accounts[i].refreshToken,
                         accessToken |-> Undefined,
                         expiresAt |-> Undefined,
                         addedAt |-> data.accounts[i].addedAt,
                         lastUsed |-> data.accounts[i].lastUsed,
                         rateLimitResetTimes |->
                             IF data.accounts[i].rateLimitResetTimes = Omitted
                             THEN NoRateLimits
                             ELSE data.accounts[i].rateLimitResetTimes[1],
                         lastSwitchReason |-> Undefined]]
             claude == Max2(0, data.activeIndexByFamily["claude"]) % Max2(1, n)
             gemini == Max2(0, data.activeIndexByFamily["gemini"]) % Max2(1, n)
         IN  [m |-> Registry(accs, claude,
                             [f \in Families |-> IF f = "claude" THEN claude ELSE gemini]),
              ret |-> Undefined]

toStorageData(m) ==
    [isNull |-> FALSE,
     hasAccounts |-> TRUE,
     accounts |-> [i \in Positions(m.accounts) |->
                     [email |-> m.accounts[i].email,
                      projectId |-> m.accounts[i].projectId,
                      refreshToken |-> m.accounts[i].refreshToken,
                      addedAt |-> m.accounts[i].addedAt,
                      lastUsed |-> m.accounts[i].lastUsed,
                      rateLimitResetTimes |->
                          IF Cardinality(DOMAIN m.accounts[i].rateLimitResetTimes) > 0
                          THEN Given(m.accounts[i].rateLimitResetTimes)
                          ELSE Omitted]],
     activeIndexByFamily |->
         [f \in Families |-> Max2(0, m.currentAccountIndexByFamily[f])]]

\* this.accounts.push(account): the list with account at the new last place
push(accs, account) ==
    [i \in 1..(Len(accs) + 1) |-> IF i <= Len(accs) THEN accs[i] ELSE account]

\* (variant) a match is replaced by a fresh account built from the tokens, at
\* the same place
addAccount_matchReplaced(m, tokens, t) ==
    LET matching == {i \in Positions(m.accounts) :
                        \/ tokens.email # Undefined /\ m.accounts[i].email = tokens.email
                        \/ m.accounts[i].refreshToken = tokens.refresh_token}
        fresh(index) == [index |-> index,
                         email |-> tokens.email,
                         projectId |-> tokens.project_id,
                         refreshToken |-> tokens.refresh_token,
                         accessToken |-> tokens.access_token,
                         expiresAt |-> tokens.expires_at,
                         addedAt |-> t,
                         lastUsed |-> 0,
                         rateLimitResetTimes |-> NoRateLimits,
                         lastSwitchReason |-> Undefined]
    IN  IF matching # {}
        THEN LET existing == SetMin(matching)
             IN  [m |-> [m EXCEPT !.accounts[existing] = fresh(@.index)],
                  ret |-> existing]
        ELSE LET accs == push(m.accounts, fresh(Len(m.accounts)))
             IN  [m |-> [m EXCEPT !.accounts = accs,
                                  !.currentAccountIndexByFamily =
                                      IF Len(accs) = 1 THEN [f \in Families |-> 0] ELSE @],
                  ret |-> Len(accs)]

\* (variant) every appended account becomes the active one of both families
addAccount_pointersReset(m, tokens, t) ==
    LET matching == {i \in Positions(m.accounts) :
                        \/ tokens.email # Undefined /\ m.accounts[i].email = tokens.email
                        \/ m.accounts[i].refreshToken = tokens.refresh_token}
    IN  IF matching # {}
        THEN LET existing == SetMin(matching)
             IN  [m |-> [m EXCEPT !.accounts[existing] =
                            [@ EXCEPT !.refreshToken = tokens.refresh_token,
                                      !.projectId = tokens.project_id,
                                      !.accessToken = tokens.access_token,
                                      !.expiresAt = tokens.expires_at,
                                      !.email = tokens.email]],
                  ret |-> existing]
        ELSE LET account == [index |-> Len(m.accounts),
                             email |-> tokens.email,
                             projectId |-> tokens.project_id,
                             refreshToken |-> tokens.refresh_token,
                             accessToken |-> tokens.access_token,
                             expiresAt |-> tokens.expires_at,
                             addedAt |-> t,
                             lastUsed |-> 0,
                             rateLimitResetTimes |-> NoRateLimits,
                             lastSwitchReason |-> Undefined]
                 accs == push(m.accounts, account)
             IN  [m |-> [m EXCEPT !.accounts = accs,
                                  !.currentAccountIndexByFamily =
                                      [f \in Families |-> Len(accs) - 1]],
                  ret |-> Len(accs)]

addAccount(m, tokens, t) ==
    LET matching == {i \in Positions(m.accounts) :
                        \/ tokens.email # Undefined /\ m.accounts[i].email = tokens.email
                        \/ m.accounts[i].refreshToken = tokens.refresh_token}
    IN  IF matching # {}
        THEN LET existing == SetMin(matching)
             IN  [m |-> [m EXCEPT !.accounts[existing] =
                            [@ EXCEPT !.refreshToken = tokens.refresh_token,
                                      !.projectId = tokens.project_id,
                                      !.accessToken = tokens.access_token,
                                      !.expiresAt = tokens.expires_at,
                                      !.email = tokens.email]],
                  ret |-> existing]
        ELSE LET account == [index |-> Len(m.accounts),
                             email |-> tokens.email,
                             projectId |-> tokens.project_id,
                             refreshToken |-> tokens.refresh_token,
                             accessToken |-> tokens.access_token,
                             expiresAt |-> tokens.expires_at,
                             addedAt |-> t,
                             lastUsed |-> 0,
                             rateLimitResetTimes |-> NoRateLimits,
                             lastSwitchReason |-> Undefined]
                 accs == push(m.accounts, account)
             IN  [m |-> [m EXCEPT !.accounts = accs,
                                  !.currentAccountIndexByFamily =
                                      IF Len(accs) = 1 THEN [f \in Families |-> 0] ELSE @],
                  ret |-> Len(accs)]

\* (variant) the cursor is not clamped after the splice
removeAccount_cursorKept(m, index) ==
    IF index < 0 \/ index >= Len(m.accounts)
    THEN [m |-> m, ret |-> FALSE]
    ELSE LET n == Len(m.accounts) - 1
             spliced == [i \in 1..n |->
                           IF i <= index THEN m.accounts[i] ELSE m.accounts[i + 1]]
             accs == [i \in 1..n |-> [spliced[i] EXCEPT !.index = i - 1]]
             adjusted(f) ==
                 LET old == m.currentAccountIndexByFamily[f]
                     dec == IF old >= index THEN Max2(0, old - 1) ELSE old
                 IN  Min2(dec, n - 1)
         IN  IF n = 0
             THEN [m |-> EmptyRegistry, ret |-> TRUE]
             ELSE [m |-> Registry(accs, m.cursor, [f \in Families |-> adjusted(f)]),
                   ret |-> TRUE]

\* (variant) a pointer above the removed index is decremented, and nothing else
removeAccount_noClamp(m, index) ==
    IF index < 0 \/ index >= Len(m.accounts)
    THEN [m |-> m, ret |-> FALSE]
    ELSE LET n == Len(m.accounts) - 1
             spliced == [i \in 1..n |->
                           IF i <= index THEN m.accounts[i] ELSE m.accounts[i + 1]]
             accs == [i \in 1..n |-> [spliced[i] EXCEPT !.index = i - 1]]
             adjusted(f) ==
                 LET old == m.currentAccountIndexByFamily[f]
                 IN  IF old > index THEN old - 1 ELSE old
         IN  IF n = 0
             THEN [m |-> EmptyRegistry, ret |-> TRUE]
             ELSE [m |-> Registry(accs, Min2(m.cursor, n - 1),
                                  [f \in Families |-> adjusted(f)]),
                   ret |-> TRUE]

\* (variant) the remaining accounts keep the index they had before the splice
removeAccount_noReindex(m, index) ==
    IF index < 0 \/ index >= Len(m.accounts)
    THEN [m |-> m, ret |-> FALSE]
    ELSE LET n == Len(m.accounts) - 1
             spliced == [i \in 1..n |->
                           IF i <= index THEN m.accounts[i] ELSE m.accounts[i + 1]]
             adjusted(f) ==
                 LET old == m.currentAccountIndexByFamily[f]
                     dec == IF old >= index THEN Max2(0, old - 1) ELSE old
                 IN  Min2(dec, n - 1)
         IN  IF n = 0
             THEN [m |-> EmptyRegistry, ret |-> TRUE]
             ELSE [m |-> Registry(spliced, Min2(m.cursor, n - 1),
                                  [f \in Families |-> adjusted(f)]),
                   ret |-> TRUE]

\* (variant) the account after the given one is spliced out (the last one when
\* the given one is the last)
removeAccount_spliceNext(m, index) ==
    IF index < 0 \/ index >= Len(m.accounts)
    THEN [m |-> m, ret |-> FALSE]
    ELSE LET n == Len(m.accounts) - 1
             gone == Min2(index + 1, n)
             spliced == [i \in 1..n |->
                           IF i <= gone THEN m.accounts[i] ELSE m.accounts[i + 1]]
             accs == [i \in 1..n |-> [spliced[i] EXCEPT !.index = i - 1]]
             adjusted(f) ==
                 LET old == m.currentAccountIndexByFamily[f]
                     dec == IF old >= index THEN Max2(0, old - 1) ELSE old
                 IN  Min2(dec, n - 1)
         IN  IF n = 0
             THEN [m |-> EmptyRegistry, ret |-> TRUE]
             ELSE [m |-> Registry(accs, Min2(m.cursor, n - 1),
                                  [f \in Families |-> adjusted(f)]),
                   ret |-> TRUE]

\* (variant) a negative index is not rejected: splice(-1, 1) takes the last
\* account, and the pointers are adjusted with the index as given
removeAccount_negativeAccepted(m, index) ==
    IF index >= Len(m.accounts) \/ (index < 0 /\ Len(m.accounts) = 0)
    THEN [m |-> m, ret |-> FALSE]
    ELSE LET n == Len(m.accounts) - 1
             start == IF index < 0 THEN Max2(0, Len(m.accounts) + index) ELSE index
             spliced == [i \in 1..n |->
                           IF i <= start THEN m.accounts[i] ELSE m.accounts[i + 1]]
             accs == [i \in 1..n |-> [spliced[i] EXCEPT !.index = i - 1]]
             adjusted(f) ==
                 LET old == m.currentAccountIndexByFamily[f]
                     dec == IF old >= index THEN Max2(0, old - 1) ELSE old
                 IN  Min2(dec, n - 1)
         IN  IF n = 0
             THEN [m |-> EmptyRegistry, ret |-> TRUE]
             ELSE [m |-> Registry(accs, Min2(m.cursor, n - 1),
                                  [f \in Families |-> adjusted(f)]),
                   ret |-> TRUE]

\* (variant) only a pointer above the removed index is decremented
removeAccount_strictAbove(m, index) ==
    IF index < 0 \/ index >= Len(m.accounts)
    THEN [m |-> m, ret |-> FALSE]
    ELSE LET n == Len(m.accounts) - 1
             spliced == [i \in 1..n |->
                           IF i <= index THEN m.accounts[i] ELSE m.accounts[i + 1]]
             accs == [i \in 1..n |-> [spliced[i] EXCEPT !.index = i - 1]]
             adjusted(f) ==
                 LET old == m.currentAccountIndexByFamily[f]
                     dec == IF old > index THEN Max2(0, old - 1) ELSE old
                 IN  Min2(dec, n - 1)
         IN  IF n = 0
             THEN [m |-> EmptyRegistry, ret |-> TRUE]
             ELSE [m |-> Registry(accs, Min2(m.cursor, n - 1),
                                  [f \in Families |-> adjusted(f)]),
                   ret |-> TRUE]

removeAccount(m, index) ==
    IF index < 0 \/ index >= Len(m.accounts)
    THEN [m |-> m, ret |-> FALSE]
    ELSE LET n == Len(m.accounts) - 1
             spliced == [i \in 1..n |->
                           IF i <= index THEN m.accounts[i] ELSE m.accounts[i + 1]]
             accs == [i \in 1..n |-> [spliced[i] EXCEPT !.index = i - 1]]
             adjusted(f) ==
                 LET old == m.currentAccountIndexByFamily[f]
                     dec == IF old >= index THEN Max2(0, old - 1) ELSE old
                 IN  Min2(dec, n - 1)
         IN  IF n = 0
             THEN [m |-> EmptyRegistry, ret |-> TRUE]
             ELSE [m |-> Registry(accs, Min2(m.cursor, n - 1),
                                  [f \in Families |-> adjusted(f)]),
                   ret |-> TRUE]

getCurrentAccountForFamily(m, family) ==
    LET index == m.currentAccountIndexByFamily[family]
    IN  IF index >= 0 /\ index < Len(m.accounts) THEN index + 1 ELSE Null

\* (variant) the cursor is not advanced
getNextForFamily_noAdvance(m, family, t) ==
    LET n == Len(m.accounts)
        cleared == [i \in 1..n |-> clearExpiredRateLimits(m.accounts[i], t)]
        isAvailable(i) == ~isRateLimitedForFamily(cleared[i], family, t)
        available == SelectSeq([i \in 1..n |-> i], isAvailable)
    IN  IF Len(available) = 0
        THEN [m |-> [m EXCEPT !.accounts = cleared], ret |-> Null]
        ELSE LET account == available[(m.cursor % Len(available)) + 1]
             IN  [m |-> [m EXCEPT !.accounts = [cleared EXCEPT ![account].lastUsed = t]],
                  ret |-> account]

\* (variant) the first available account is taken, whatever the cursor
getNextForFamily_firstAvailable(m, family, t) ==
    LET n == Len(m.accounts)
        cleared == [i \in 1..n |-> clearExpiredRateLimits(m.accounts[i], t)]
        isAvailable(i) == ~isRateLimitedForFamily(cleared[i], family, t)
        available == SelectSeq([i \in 1..n |-> i], isAvailable)
    IN  IF Len(available) = 0
        THEN [m |-> [m EXCEPT !.accounts = cleared], ret |-> Null]
        ELSE LET account == available[1]
             IN  [m |-> [m EXCEPT !.accounts = [cleared EXCEPT ![account].lastUsed = t],
                                  !.cursor = @ + 1],
                  ret |-> account]

\* (variant) the cursor wraps at the number of accounts
getNextForFamily_cursorWrapped(m, family, t) ==
    LET n == Len(m.accounts)
        cleared == [i \in 1..n |-> clearExpiredRateLimits(m.accounts[i], t)]
        isAvailable(i) == ~isRateLimitedForFamily(cleared[i], family, t)
        available == SelectSeq([i \in 1..n |-> i], isAvailable)
    IN  IF Len(available) = 0
        THEN [m |-> [m EXCEPT !.accounts = cleared], ret |-> Null]
        ELSE LET account == available[(m.cursor % Len(available)) + 1]
             IN  [m |-> [m EXCEPT !.accounts = [cleared EXCEPT ![account].lastUsed = t],
                                  !.cursor = (@ + 1) % n],
                  ret |-> account]

\* `available[cursor % available.length]` is always an account here: the cursor
\* is a natural number, so the following `if (!account) return null` never runs.
\* (variant) the rotation step also makes the account it returns the sticky one
getNextForFamily_pointerMoved(m, family, t) ==
    LET n == Len(m.accounts)
        cleared == [i \in 1..n |-> clearExpiredRateLimits(m.accounts[i], t)]
        isAvailable(i) == ~isRateLimitedForFamily(cleared[i], family, t)
        available == SelectSeq([i \in 1..n |-> i], isAvailable)
    IN  IF Len(available) = 0
        THEN [m |-> [m EXCEPT !.accounts = cleared], ret |-> Null]
        ELSE LET account == available[(m.cursor % Len(available)) + 1]
             IN  [m |-> [m EXCEPT !.accounts = [cleared EXCEPT ![account].lastUsed = t],
                                  !.cursor = @ + 1,
                                  !.currentAccountIndexByFamily[family] =
                                      cleared[account].index],
                  ret |-> account]

getNextForFamily(m, family, t) ==
    LET n == Len(m.accounts)
        cleared == [i \in 1..n |-> clearExpiredRateLimits(m.accounts[i], t)]
        isAvailable(i) == ~isRateLimitedForFamily(cleared[i], family, t)
        available == SelectSeq([i \in 1..n |-> i], isAvailable)
    IN  IF Len(available) = 0
        THEN [m |-> [m EXCEPT !.accounts = cleared], ret |-> Null]
        ELSE LET account == available[(m.cursor % Len(available)) + 1]
             IN  [m |-> [m EXCEPT !.accounts = [cleared EXCEPT ![account].lastUsed = t],
                                  !.cursor = @ + 1],
                  ret |-> account]

\* (variant) the sticky account is not preferred: every call rotates
getCurrentOrNextForFamily_alwaysRotate(m, family, t) ==
    LET next == getNextForFamily(m, family, t)
    IN  IF next.ret # Null
        THEN [m |-> [next.m EXCEPT
                       !.currentAccountIndexByFamily[family] =
                           next.m.accounts[next.ret].index,
                       !.accounts[next.ret].lastSwitchReason = "rate-limit"],
              ret |-> next.ret]
        ELSE next

\* (variant) when no account is available the family's pointer is reset
getCurrentOrNextForFamily_pointerDropped(m, family, t) ==
    LET current == getCurrentAccountForFamily(m, family)
        m1 == IF current # Null
              THEN [m EXCEPT !.accounts[current] = clearExpiredRateLimits(@, t)]
              ELSE m
    IN  IF current # Null /\ ~isRateLimitedForFamily(m1.accounts[current], family, t)
        THEN [m |-> [m1 EXCEPT !.accounts[current].lastUsed = t], ret |-> current]
        ELSE LET next == getNextForFamily(m1, family, t)
             IN  IF next.ret # Null
                 THEN [m |-> [next.m EXCEPT
                                !.currentAccountIndexByFamily[family] =
                                    next.m.accounts[next.ret].index,
                                !.accounts[next.ret].lastSwitchReason = "rate-limit"],
                       ret |-> next.ret]
                 ELSE [m |-> [next.m EXCEPT
                                !.currentAccountIndexByFamily[family] = NoAccount],
                       ret |-> Null]

getCurrentOrNextForFamily(m, family, t) ==
    LET current == getCurrentAccountForFamily(m, family)
        m1 == IF current # Null
              THEN [m EXCEPT !.accounts[current] = clearExpiredRateLimits(@, t)]
              ELSE m
    IN  IF current # Null /\ ~isRateLimitedForFamily(m1.accounts[current], family, t)
        THEN [m |-> [m1 EXCEPT !.accounts[current].lastUsed = t], ret |-> current]
        ELSE LET next == getNextForFamily(m1, family, t)
             IN  IF next.ret # Null
                 THEN [m |-> [next.m EXCEPT
                                !.currentAccountIndexByFamily[family] =
                                    next.m.accounts[next.ret].index,
                                !.accounts[next.ret].lastSwitchReason = "rate-limit"],
                       ret |-> next.ret]
                 ELSE next

\* (variant) gemini tries the gemini-cli pool first
getAvailableHeaderStyle_cliFirst(m, account, family, t) ==
    LET a == clearExpiredRateLimits(m.accounts[account], t)
        m1 == [m EXCEPT !.accounts[account] = a]
    IN  IF family = "claude"
        THEN [m |-> m1,
              ret |-> IF isRateLimitedForQuotaKey(a, "claude", t) THEN "null" ELSE "antigravity"]
        ELSE IF ~isRateLimitedForQuotaKey(a, "gemini-cli", t)
        THEN [m |-> m1, ret |-> "gemini-cli"]
        ELSE IF ~isRateLimitedForQuotaKey(a, "gemini-antigravity", t)
        THEN [m |-> m1, ret |-> "antigravity"]
        ELSE [m |-> m1, ret |-> "null"]

\* (variant) gemini has no fallback to the gemini-cli pool
getAvailableHeaderStyle_antigravityOnly(m, account, family, t) ==
    LET a == clearExpiredRateLimits(m.accounts[account], t)
        m1 == [m EXCEPT !.accounts[account] = a]
    IN  IF family = "claude"
        THEN [m |-> m1,
              ret |-> IF isRateLimitedForQuotaKey(a, "claude", t) THEN "null" ELSE "antigravity"]
        ELSE IF ~isRateLimitedForQuotaKey(a, "gemini-antigravity", t)
        THEN [m |-> m1, ret |-> "antigravity"]
        ELSE [m |-> m1, ret |-> "null"]

getAvailableHeaderStyle(m, account, family, t) ==
    LET a == clearExpiredRateLimits(m.accounts[account], t)
        m1 == [m EXCEPT !.accounts[account] = a]
    IN  IF family = "claude"
        THEN [m |-> m1,
              ret |-> IF isRateLimitedForQuotaKey(a, "claude", t) THEN "null" ELSE "antigravity"]
        ELSE IF ~isRateLimitedForQuotaKey(a, "gemini-antigravity", t)
        THEN [m |-> m1, ret |-> "antigravity"]
        ELSE IF ~isRateLimitedForQuotaKey(a, "gemini-cli", t)
        THEN [m |-> m1, ret |-> "gemini-cli"]
        ELSE [m |-> m1, ret |-> "null"]

\* (variant) a report does not shorten a limit that is already set
markRateLimited_keepLater(m, account, retryAfterMs, family, headerStyle, t) ==
    LET key == getQuotaKey(family, headerStyle)
        times == m.accounts[account].rateLimitResetTimes
    IN  [m |-> [m EXCEPT !.accounts[account].rateLimitResetTimes =
                    [k \in DOMAIN times \cup {key} |->
                        IF k # key THEN times[k]
                        ELSE IF key \in DOMAIN times
                        THEN Max2(times[key], t + retryAfterMs)
                        ELSE t + retryAfterMs]],
         ret |-> Undefined]

\* (variant) the entry holds the retry delay instead of the reset time
markRateLimited_durationStored(m, account, retryAfterMs, family, headerStyle, t) ==
    LET key == getQuotaKey(family, headerStyle)
        times == m.accounts[account].rateLimitResetTimes
    IN  [m |-> [m EXCEPT !.accounts[account].rateLimitResetTimes =
                    [k \in DOMAIN times \cup {key} |->
                        IF k = key THEN retryAfterMs ELSE times[k]]],
         ret |-> Undefined]

markRateLimited(m, account, retryAfterMs, family, headerStyle, t) ==
    LET key == getQuotaKey(family, headerStyle)
        times == m.accounts[account].rateLimitResetTimes
    IN  [m |-> [m EXCEPT !.accounts[account].rateLimitResetTimes =
                    [k \in DOMAIN times \cup {key} |->
                        IF k = key THEN t + retryAfterMs ELSE times[k]]],
         ret |-> Undefined]

\* Array.prototype.every stops at the first account for which the callback is
\* false, so only the accounts up to that one have their expired entries cleared.
allAccountsRateLimited(m, family, t) ==
    LET n == Len(m.accounts)
        open == {i \in 1..n :
                    ~isRateLimitedForFamily(clearExpiredRateLimits(m.accounts[i], t), family, t)}
        examined == IF open = {} THEN n ELSE SetMin(open)
    IN  [m |-> [m EXCEPT !.accounts =
                    [i \in 1..n |-> IF i <= examined
                                    THEN clearExpiredRateLimits(m.accounts[i], t)
                                    ELSE m.accounts[i]]],
         ret |-> open = {}]

\* Infinity of the source: larger than every wait the model can produce
Infinity == 1000000

\* (variant) the time left is not floored at 0
getMinWaitTime_noFloor(m, family, t) ==
    LET timeLeft(i, key) ==
            IF key \in DOMAIN m.accounts[i].rateLimitResetTimes
            THEN m.accounts[i].rateLimitResetTimes[key] - t
            ELSE Infinity
        accountWait(i) ==
            IF family = "claude"
            THEN timeLeft(i, "claude")
            ELSE Min2(timeLeft(i, "gemini-antigravity"), timeLeft(i, "gemini-cli"))
        waitTimes == {accountWait(i) : i \in {j \in Positions(m.accounts) :
                                                accountWait(j) # Infinity}}
    IN  [m |-> m, ret |-> IF waitTimes # {} THEN SetMin(waitTimes) ELSE 0]

\* (variant) the wait of an account is the least over all its pools, whatever
\* the family
getMinWaitTime_anyPool(m, family, t) ==
    LET timeLeft(i, key) ==
            IF key \in DOMAIN m.accounts[i].rateLimitResetTimes
            THEN Max2(0, m.accounts[i].rateLimitResetTimes[key] - t)
            ELSE Infinity
        accountWait(i) ==
            Min2(timeLeft(i, "claude"),
                 Min2(timeLeft(i, "gemini-antigravity"), timeLeft(i, "gemini-cli")))
        waitTimes == {accountWait(i) : i \in {j \in Positions(m.accounts) :
                                                accountWait(j) # Infinity}}
    IN  [m |-> m, ret |-> IF waitTimes # {} THEN SetMin(waitTimes) ELSE 0]

getMinWaitTime(m, family, t) ==
    LET timeLeft(i, key) ==
            IF key \in DOMAIN m.accounts[i].rateLimitResetTimes
            THEN Max2(0, m.accounts[i].rateLimitResetTimes[key] - t)
            ELSE Infinity
        accountWait(i) ==
            IF family = "claude"
            THEN timeLeft(i, "claude")
            ELSE Min2(timeLeft(i, "gemini-antigravity"), timeLeft(i, "gemini-cli"))
        waitTimes == {accountWait(i) : i \in {j \in Positions(m.accounts) :
                                                accountWait(j) # Infinity}}
    IN  [m |-> m, ret |-> IF waitTimes # {} THEN SetMin(waitTimes) ELSE 0]

\* ------------------------------------------------------ the diagnostic sink
\* The constructor's optional logger: absent, one whose info() returns, one
\* whose info() throws.
Loggers == {"none", "working", "failing"}

\* `this.logger?.info(...)` as the last statement before the return: every
\* assignment of the method has been made when it runs, and when info() throws
\* the call raises instead of returning `ret`
logInfo(logger, r) ==
    [m |-> r.m, ret |-> r.ret, raised |-> logger = "failing"]

\* a path of a method on which nothing is logged
noLog(r) ==
    [m |-> r.m, ret |-> r.ret, raised |-> FALSE]

\* addAccount logs on both paths (updated, added)
addAccountWith(logger, m, tokens, t) ==
    logInfo(logger, addAccount(m, tokens, t))

\* getCurrentOrNextForFamily logs when it has switched to another account
getCurrentOrNextForFamilyWith(logger, m, family, t) ==
    LET current == getCurrentAccountForFamily(m, family)
        stays == /\ current # Null
                 /\ ~isRateLimitedForFamily(clearExpiredRateLimits(m.accounts[current], t),
                                            family, t)
        r == getCurrentOrNextForFamily(m, family, t)
    IN  IF ~stays /\ r.ret # Null THEN logInfo(logger, r) ELSE noLog(r)

\* markRateLimited logs every report
markRateLimitedWith(logger, m, account, retryAfterMs, family, headerStyle, t) ==
    logInfo(logger, markRateLimited(m, account, retryAfterMs, family, headerStyle, t))

\* ------------------------------------------------------- persisted inputs
\* What loadFromStorage is given: null, or a data object with n accounts and
\* two stored indices (negative and out-of-range ones included).
NullData == [isNull |-> TRUE, hasAccounts |-> FALSE, accounts |-> << >>,
             activeIndexByFamily |-> [f \in Families |-> 0]]

\* a persisted object that lost its `accounts` field
CorruptData == [isNull |-> FALSE, hasAccounts |-> FALSE, accounts |-> << >>,
                activeIndexByFamily |-> [f \in Families |-> 0]]

StoredAccount(i, limits) ==
    [email |-> IF i = 1 THEN "e1" ELSE IF i = 2 THEN "e2" ELSE Undefined,
     projectId |-> "p1",
     refreshToken |-> "r" \o ToString(i),
     addedAt |-> 0,
     lastUsed |-> 0,
     rateLimitResetTimes |-> limits]

StorageData(accs, c, g) ==
    [isNull |-> FALSE,
     hasAccounts |-> TRUE,
     accounts |-> accs,
     activeIndexByFamily |-> [f \in Families |-> IF f = "claude" THEN c ELSE g]]

\* persisted accounts without rate limits
Unlimited(n) == [i \in 1..n |-> StoredAccount(i, Omitted)]

\* two persisted accounts with rate-limit entries on every pool
StoredLimits(i) ==
    IF i = 1
    THEN [k \in {"gemini-antigravity", "gemini-cli"} |->
            IF k = "gemini-cli" THEN 1 ELSE 2]
    ELSE [k \in {"claude", "gemini-cli"} |-> IF k = "claude" THEN 1 ELSE 2]

LimitedPair == [i \in 1..2 |-> StoredAccount(i, Given(StoredLimits(i)))]

StoredIndices == {-1, 1, MaxAccounts + 2}

StorageInputs ==
    {NullData, StorageData(<< >>, 1, 1)} \cup
    {StorageData(Unlimited(MaxAccounts), c, g) : c \in StoredIndices, g \in {-1, 2}}

QuotaStorageInputs ==
    {NullData, StorageData(Unlimited(1), 0, 0), StorageData(Unlimited(2), 0, 1),
     StorageData(LimitedPair, 1, 0)}

\* ------------------------------------------------------------ the state
Reg == Registry(accounts, cursor, currentAccountIndexByFamily)

Install(m) ==
    /\ accounts' = m.accounts
    /\ cursor' = m.cursor
    /\ currentAccountIndexByFamily' = m.currentAccountIndexByFamily

\* where a remembered account object is after the splice of removeAccount(index)
AfterSplice(position, index) ==
    IF position = index + 1 THEN 0
    ELSE IF position > index + 1 THEN position - 1
    ELSE position

\* the number of rate-limit entries the accounts hold
Limited(accs) ==
    Cardinality(UNION {{<<i, k>> : k \in DOMAIN accs[i].rateLimitResetTimes} :
                           i \in Positions(accs)})

Init ==
    /\ accounts = << >>
    /\ cursor = 0
    /\ currentAccountIndexByFamily = [f \in Families |-> NoAccount]
    /\ now = 0
    /\ lastReturned = [f \in Families |-> 0]

Tick ==
    /\ now < MaxTime
    /\ now' = now + 1
    /\ UNCHANGED <<accounts, cursor, currentAccountIndexByFamily, lastReturned>>

LoadFromStorage(inputs) ==
    \E data \in inputs :
        LET r == loadFromStorage(Reg, data)
        IN  /\ Install(r.m)
            /\ lastReturned' = IF r.ret = TypeError
                               THEN lastReturned
                               ELSE [f \in Families |-> 0]
            /\ UNCHANGED now

AddAccount(inputs) ==
    \E tokens \in inputs :
        LET r == addAccount(Reg, tokens, now)
        IN  /\ Len(r.m.accounts) <= MaxAccounts
            /\ Install(r.m)
            /\ UNCHANGED <<now, lastReturned>>

RemoveAccount ==
    \E index \in -1..MaxAccounts :
        LET r == removeAccount(Reg, index)
        IN  /\ Install(r.m)
            /\ lastReturned' =
                   IF r.ret
                   THEN [f \in Families |-> AfterSplice(lastReturned[f], index)]
                   ELSE lastReturned
            /\ UNCHANGED now

GetCurrentOrNextForFamily ==
    \E family \in Families :
        LET r == getCurrentOrNextForFamily(Reg, family, now)
        IN  /\ r.m.cursor <= MaxCursor
            /\ Install(r.m)
            /\ lastReturned' =
                   IF r.ret # Null
                   THEN [lastReturned EXCEPT ![family] = r.ret]
                   ELSE lastReturned
            /\ UNCHANGED now

GetNextForFamily ==
    \E family \in Families :
        LET r == getNextForFamily(Reg, family, now)
        IN  /\ r.m.cursor <= MaxCursor
            /\ Install(r.m)
            /\ UNCHANGED <<now, lastReturned>>

GetAvailableHeaderStyle ==
    \E account \in Positions(accounts), family \in Families :
        LET r == getAvailableHeaderStyle(Reg, account, family, now)
        IN  /\ Install(r.m)
            /\ UNCHANGED <<now, lastReturned>>

MarkRateLimited(families, headerStyles, retries) ==
    \E account \in Positions(accounts), retryAfterMs \in retries,
       family \in families, headerStyle \in headerStyles :
        LET r == markRateLimited(Reg, account, retryAfterMs, family, headerStyle, now)
        IN  /\ Limited(r.m.accounts) <= Max2(MaxLimited, Limited(accounts))
            /\ Install(r.m)
            /\ UNCHANGED <<now, lastReturned>>

AllAccountsRateLimited ==
    \E family \in Families :
        LET r == allAccountsRateLimited(Reg, family, now)
        IN  /\ Install(r.m)
            /\ UNCHANGED <<now, lastReturned>>

GetMinWaitTime ==
    \E family \in Families :
        LET r == getMinWaitTime(Reg, family, now)
        IN  /\ Install(r.m)
            /\ UNCHANGED <<now, lastReturned>>

\* The store and the rotation, the clock standing still.
Next ==
    \/ LoadFromStorage(StorageInputs \cup {CorruptData})
    \/ AddAccount(StoreTokens)
    \/ RemoveAccount
    \/ GetCurrentOrNextForFamily
    \/ GetNextForFamily
    \/ MarkRateLimited(Families, HeaderStyles, {1})

Spec == Init /\ [][Next]_vars

\* Sequences of addAccount calls alone, from the empty store.
NextAdd ==
    \/ AddAccount(TokenInputs)
    \/ Tick

SpecAdd == Init /\ [][NextAdd]_vars

\* The quota pools of a persisted store as time passes.
NextQuota ==
    \/ Tick
    \/ LoadFromStorage(QuotaStorageInputs)
    \/ MarkRateLimited(Families, HeaderStyles, RetryAfterMs)
    \/ GetAvailableHeaderStyle
    \/ AllAccountsRateLimited
    \/ GetMinWaitTime

SpecQuota == Init /\ [][NextQuota]_vars

\* Selection over a persisted store while limits are set and expire.
NextExpiry ==
    \/ Tick
    \/ LoadFromStorage(QuotaStorageInputs)
    \/ MarkRateLimited(Families, HeaderStyles, RetryAfterMs)
    \/ GetCurrentOrNextForFamily
    \/ GetNextForFamily
    \/ GetAvailableHeaderStyle
    \/ AllAccountsRateLimited
    \/ GetMinWaitTime

SpecExpiry == Init /\ [][NextExpiry]_vars

\* every reset time recorded is one the clock reaches
ResetsWithinClock ==
    \A p \in Positions(accounts) :
        \A k \in DOMAIN accounts[p].rateLimitResetTimes :
            accounts[p].rateLimitResetTimes[k] <= MaxTime

\* Selection over one persisted store, loaded once and never removed from,
\* under a clock that keeps advancing past every reset time recorded.
NextRecovery ==
    \/ Tick
    \/ (accounts = << >> /\ LoadFromStorage(QuotaStorageInputs))
    \/ (MarkRateLimited(Families, HeaderStyles, RetryAfterMs) /\ ResetsWithinClock')
    \/ GetCurrentOrNextForFamily
    \/ GetMinWaitTime

SpecRecovery == Init /\ [][NextRecovery]_vars /\ WF_vars(Tick)

\* ================================================================ properties
\* The vocabulary of the properties, stated on the data alone.

\* the pool `key` of an account admits a request at time t
PoolOpen(account, key, t) ==
    \/ key \notin DOMAIN account.rateLimitResetTimes
    \/ account.rateLimitResetTimes[key] <= t

\* claude: its one pool is closed; gemini: both of its pools are closed
RateLimitedFor(account, family, t) ==
    IF family = "claude"
    THEN ~PoolOpen(account, "claude", t)
    ELSE ~PoolOpen(account, "gemini-antigravity", t) /\ ~PoolOpen(account, "gemini-cli", t)

\* the positions of the accounts that are not rate-limited for the family
Eligible(family) ==
    {p \in Positions(accounts) : ~RateLimitedFor(accounts[p], family, now)}

\* the k-th (from 0) eligible account in store order
KthEligible(family, k) ==
    CHOOSE p \in Eligible(family) :
        Cardinality({q \in Eligible(family) : q < p}) = k

\* the position the family's sticky pointer designates (0: none)
Sticky(family) ==
    IF currentAccountIndexByFamily[family] + 1 \in Positions(accounts)
    THEN currentAccountIndexByFamily[family] + 1
    ELSE 0

\* the results of k consecutive getNextForFamily(family) calls from registry m
RECURSIVE Rotations(_, _, _)
Rotations(m, family, k) ==
    IF k = 0 THEN << >>
    ELSE LET r == getNextForFamily(m, family, now)
         IN  <<r.ret>> \o Rotations(r.m, family, k - 1)

\* C1. Stickiness: the account that getCurrentOrNextForFamily(F) last returned,
\* as long as its object is in the store (no removeAccount of it, no
\* loadFromStorage since) and it is not rate-limited for F, is what the next
\* getCurrentOrNextForFamily(F) returns, whatever was called in between.
C1_Stickiness ==
    \A family \in Families :
        LET x == lastReturned[family]
        IN  (x # 0 /\ ~RateLimitedFor(accounts[x], family, now))
            => getCurrentOrNextForFamily(Reg, family, now).ret = x

\* a call for gemini rotated to the second account, a call of the other family
\* returned the first one, and the first is still limited for gemini
C1_Witness ==
    /\ Len(accounts) = 3
    /\ lastReturned["gemini"] = 2
    /\ lastReturned["claude"] = 1
    /\ cursor >= 1
    /\ ~RateLimitedFor(accounts[2], "gemini", now)
    /\ RateLimitedFor(accounts[1], "gemini", now)

\* C2. getCurrentOrNextForFamily(F) returns null exactly when the store is empty
\* or every account is rate-limited for F at the time of the call; otherwise
\* it returns an account of the store that is not rate-limited for F then.
C2_NullIffExhausted ==
    \A family \in Families :
        LET r == getCurrentOrNextForFamily(Reg, family, now)
        IN  /\ (r.ret = Null) <=> (Eligible(family) = {})
            /\ r.ret # Null => r.ret \in Eligible(family)

\* two accounts, the sticky gemini account limited on both pools, the other one
\* holding an expired entry that was not purged: the call returns the other
C2_Witness ==
    /\ Len(accounts) = 2
    /\ Sticky("gemini") = 1
    /\ RateLimitedFor(accounts[1], "gemini", now)
    /\ \E k \in DOMAIN accounts[2].rateLimitResetTimes :
           accounts[2].rateLimitResetTimes[k] <= now
    /\ Eligible("gemini") = {2}
    /\ getCurrentOrNextForFamily(Reg, "gemini", now).ret = 2

\* C3. Fairness: when all N >= 1 accounts are eligible for F, N consecutive
\* getNextForFamily(F) calls return each account exactly once, whatever the
\* cursor is (also when it is >= N).
C3_Fairness ==
    \A family \in Families :
        LET n == Len(accounts)
            run == Rotations(Reg, family, n)
        IN  (n >= 1 /\ Eligible(family) = Positions(accounts))
            => /\ {run[i] : i \in 1..n} = Positions(accounts)
               /\ \A i, j \in 1..n : run[i] = run[j] => i = j

\* rotations have advanced the cursor to the number of accounts or beyond
C3_Witness ==
    /\ Len(accounts) >= 2
    /\ cursor >= Len(accounts)
    /\ Eligible("gemini") = Positions(accounts)
    /\ Eligible("claude") = Positions(accounts)

\* C4. When F's sticky account is rate-limited for F and some account is
\* eligible, getCurrentOrNextForFamily(F) returns eligible[cursor mod
\* eligible.length] (eligible in store order), advances the cursor by exactly
\* 1, sets the returned account's lastSwitchReason to 'rate-limit' and F's
\* sticky pointer to the returned account's index.
C4_RotationOnLimit ==
    \A family \in Families :
        LET s == Sticky(family)
            r == getCurrentOrNextForFamily(Reg, family, now)
        IN  (s # 0 /\ RateLimitedFor(accounts[s], family, now) /\ Eligible(family) # {})
            => /\ r.ret = KthEligible(family, cursor % Cardinality(Eligible(family)))
               /\ r.m.cursor = cursor + 1
               /\ r.m.accounts[r.ret].lastSwitchReason = "rate-limit"
               /\ r.m.currentAccountIndexByFamily[family] = r.m.accounts[r.ret].index
               /\ r.m.accounts[r.ret].index = r.ret - 1

\* three accounts, the sticky gemini account (the first) limited on both pools,
\* two eligible ones and an odd cursor: the call returns the third account
C4_Witness ==
    /\ Len(accounts) = 3
    /\ Sticky("gemini") = 1
    /\ RateLimitedFor(accounts[1], "gemini", now)
    /\ Eligible("gemini") = {2, 3}
    /\ cursor = 1
    /\ getCurrentOrNextForFamily(Reg, "gemini", now).ret = 3

\* C5. Pool isolation: markRateLimited(A, r, claude, any style) changes neither
\* whether A is rate-limited for gemini nor getAvailableHeaderStyle(A, gemini);
\* markRateLimited(A, r, gemini, h) does not change whether A is rate-limited
\* for claude.
C5_PoolIsolation ==
    \A a \in Positions(accounts), retry \in {0} \cup RetryAfterMs, h \in HeaderStyles :
        LET c == markRateLimited(Reg, a, retry, "claude", h, now).m
            g == markRateLimited(Reg, a, retry, "gemini", h, now).m
        IN  /\ RateLimitedFor(c.accounts[a], "gemini", now)
                = RateLimitedFor(accounts[a], "gemini", now)
            /\ getAvailableHeaderStyle(c, a, "gemini", now).ret
                = getAvailableHeaderStyle(Reg, a, "gemini", now).ret
            /\ RateLimitedFor(g.accounts[a], "claude", now)
                = RateLimitedFor(accounts[a], "claude", now)

\* an account marked for claude whose gemini-antigravity pool is closed too:
\* one more closed pool would change its gemini status
C5_Witness ==
    \E a \in Positions(accounts) :
        /\ ~PoolOpen(accounts[a], "claude", now)
        /\ ~PoolOpen(accounts[a], "gemini-antigravity", now)
        /\ PoolOpen(accounts[a], "gemini-cli", now)

\* C6. Dual-pool gemini rule: an account is rate-limited for gemini iff both
\* gemini entries are present and unexpired; getAvailableHeaderStyle(A, gemini)
\* is 'antigravity' when the gemini-antigravity pool is open, 'gemini-cli' when
\* only that pool is limited, null when both are; for claude it is
\* 'antigravity' iff the claude pool is open, else null.
C6_DualPool ==
    \A a \in Positions(accounts) :
        LET times == accounts[a].rateLimitResetTimes
            live(key) == key \in DOMAIN times /\ now < times[key]
        IN  /\ isRateLimitedForFamily(accounts[a], "gemini", now)
                <=> (live("gemini-antigravity") /\ live("gemini-cli"))
            /\ getAvailableHeaderStyle(Reg, a, "gemini", now).ret =
                   IF ~live("gemini-antigravity") THEN "antigravity"
                   ELSE IF ~live("gemini-cli") THEN "gemini-cli"
                   ELSE "null"
            /\ getAvailableHeaderStyle(Reg, a, "claude", now).ret =
                   IF ~live("claude") THEN "antigravity" ELSE "null"

\* an account whose gemini-antigravity pool is limited and whose gemini-cli
\* entry has expired without being purged: only gemini-cli is available
C6_Witness ==
    \E a \in Positions(accounts) :
        /\ ~PoolOpen(accounts[a], "gemini-antigravity", now)
        /\ "gemini-cli" \in DOMAIN accounts[a].rateLimitResetTimes
        /\ PoolOpen(accounts[a], "gemini-cli", now)
        /\ getAvailableHeaderStyle(Reg, a, "gemini", now).ret = "gemini-cli"

\* C7. allAccountsRateLimited(F) is true iff the store holds at least one
\* account and every account is rate-limited for F after lazy expiry; on an
\* empty store it is false.
C7_AllLimitedNonEmpty ==
    \A family \in Families :
        allAccountsRateLimited(Reg, family, now).ret
            <=> (Len(accounts) >= 1 /\ Eligible(family) = {})

\* C8. After any sequence of addAccount calls from the empty store, no two
\* accounts share a refreshToken and no two share a defined email.
C8_UniqueIdentity ==
    \A i, j \in Positions(accounts) :
        i # j => /\ accounts[i].refreshToken # accounts[j].refreshToken
                 /\ accounts[i].email # Undefined
                        => accounts[i].email # accounts[j].email

\* C9 (as stated). The cursor is within [0, accountCount) whenever
\* accountCount > 0, and 0 when accountCount = 0.
C9_CursorInRange ==
    IF Len(accounts) > 0
    THEN cursor >= 0 /\ cursor < Len(accounts)
    ELSE cursor = 0

\* C9 (amended). The cursor is never negative and is 0 when the store is
\* empty; removeAccount and loadFromStorage leave it within [0, accountCount)
\* when accounts remain; a rotation (getNextForFamily, or
\* getCurrentOrNextForFamily when it rotates) adds exactly 1 to it without
\* wrapping, and addAccount leaves it as it is.
C9_CursorAmended ==
    /\ cursor >= 0
    /\ Len(accounts) = 0 => cursor = 0
    /\ \A index \in -1..MaxAccounts :
           LET r == removeAccount(Reg, index)
           IN  (r.ret /\ Len(r.m.accounts) > 0)
               => (r.m.cursor >= 0 /\ r.m.cursor < Len(r.m.accounts))
    /\ \A data \in StorageInputs :
           LET r == loadFromStorage(Reg, data)
           IN  IF Len(r.m.accounts) > 0
               THEN r.m.cursor >= 0 /\ r.m.cursor < Len(r.m.accounts)
               ELSE r.m.cursor = 0
    /\ \A family \in Families :
           LET n == getNextForFamily(Reg, family, now)
               c == getCurrentOrNextForFamily(Reg, family, now)
           IN  /\ n.m.cursor = IF n.ret = Null THEN cursor ELSE cursor + 1
               /\ c.m.cursor = IF c.ret = Null \/ c.ret = Sticky(family)
                               THEN cursor ELSE cursor + 1
    /\ \A tokens \in TokenInputs : addAccount(Reg, tokens, now).m.cursor = cursor

\* rotations have taken the cursor past the end of a store of three accounts'
\* worth of calls: two accounts, cursor 2
C9_Witness ==
    /\ Len(accounts) = 2
    /\ cursor >= Len(accounts)

\* C10. Each family's sticky pointer is within [0, accountCount) when
\* accountCount > 0 and is the no-accounts value -1 when accountCount = 0.
C10_StickyInRange ==
    \A family \in Families :
        IF Len(accounts) > 0
        THEN /\ currentAccountIndexByFamily[family] >= 0
             /\ currentAccountIndexByFamily[family] < Len(accounts)
        ELSE currentAccountIndexByFamily[family] = NoAccount

\* two accounts are left after a removal, both pointers on the last one, and
\* the gemini pointer got there by a rotation
C10_Witness ==
    /\ Len(accounts) = 2
    /\ accounts[1].refreshToken = "r2"
    /\ currentAccountIndexByFamily["gemini"] = 1
    /\ currentAccountIndexByFamily["claude"] = 1
    /\ accounts[2].lastSwitchReason = "rate-limit"

\* C11. Every account's index field equals its position in the store (0-based),
\* after any sequence of addAccount, removeAccount and loadFromStorage (and of
\* the selection and marking calls between them).
C11_IndexIsPosition ==
    \A p \in Positions(accounts) : accounts[p].index = p - 1

\* the first account of a loaded store was removed and one was added after it:
\* the account that was loaded second is now first, the new one is third
C11_Witness ==
    /\ Len(accounts) = 3
    /\ accounts[1].refreshToken = "r2"
    /\ accounts[2].refreshToken = "r3"
    /\ accounts[3].refreshToken = "r1"
    /\ accounts[3].index = 2

\* the accounts of the store that the tokens designate, by email or refresh token
Matches(tokens) ==
    {p \in Positions(accounts) :
        \/ tokens.email # Undefined /\ accounts[p].email = tokens.email
        \/ accounts[p].refreshToken = tokens.refresh_token}

\* C12. Dedup on add: addAccount with tokens whose email or refreshToken
\* matches an existing account returns one such account with its refreshToken,
\* projectId, accessToken, expiresAt and email overwritten; the number and
\* order of the accounts, that account's index, addedAt, lastUsed, rate-limit
\* entries and lastSwitchReason, every other account, both sticky pointers and
\* the cursor are unchanged.
C12_DedupOnAdd ==
    \A tokens \in TokenInputs :
        LET r == addAccount(Reg, tokens, now)
            x == r.ret
        IN  Matches(tokens) # {}
            => /\ x \in Matches(tokens)
               /\ Len(r.m.accounts) = Len(accounts)
               /\ \A p \in Positions(accounts) : p # x => r.m.accounts[p] = accounts[p]
               /\ r.m.accounts[x] =
                      [index |-> accounts[x].index,
                       email |-> tokens.email,
                       projectId |-> tokens.project_id,
                       refreshToken |-> tokens.refresh_token,
                       accessToken |-> tokens.access_token,
                       expiresAt |-> tokens.expires_at,
                       addedAt |-> accounts[x].addedAt,
                       lastUsed |-> accounts[x].lastUsed,
                       rateLimitResetTimes |-> accounts[x].rateLimitResetTimes,
                       lastSwitchReason |-> accounts[x].lastSwitchReason]
               /\ r.m.currentAccountIndexByFamily = currentAccountIndexByFamily
               /\ r.m.cursor = cursor

\* three accounts, the first one rate-limited and rotated away from; tokens with
\* its email, the second account's refresh token and another project update it
C12_Witness ==
    /\ Len(accounts) = 3
    /\ accounts[1].email = "e1"
    /\ accounts[2].refreshToken = "r2"
    /\ DOMAIN accounts[1].rateLimitResetTimes # {}
    /\ cursor >= 1
    /\ currentAccountIndexByFamily["claude"] = 1
    /\ LET r == addAccount(Reg, Tokens("e1", "r2", "p2"), now)
       IN  /\ r.ret = 1
           /\ r.m.accounts[1].projectId = "p2"
           /\ r.m.accounts[1].refreshToken = "r2"

\* C13. Reindex on remove: removeAccount(i) with 0 <= i < count returns true,
\* deletes exactly the account at position i, keeps the others in their order
\* and otherwise as they were, the index of every account after position i
\* being one less; both sticky pointers and the cursor are then within
\* [0, newCount), or the store is the empty one when newCount = 0.
C13_ReindexOnRemove ==
    \A i \in 0..(Len(accounts) - 1) :
        LET r == removeAccount(Reg, i)
            newCount == Len(accounts) - 1
        IN  /\ r.ret = TRUE
            /\ Len(r.m.accounts) = newCount
            /\ \A p \in 1..newCount :
                   r.m.accounts[p] =
                       IF p <= i THEN accounts[p]
                       ELSE [accounts[p + 1] EXCEPT !.index = accounts[p + 1].index - 1]
            /\ IF newCount = 0
               THEN r.m = EmptyRegistry
               ELSE /\ r.m.cursor \in 0..(newCount - 1)
                    /\ \A f \in Families :
                           r.m.currentAccountIndexByFamily[f] \in 0..(newCount - 1)

\* three accounts with a rate-limit entry on one, the cursor and the claude
\* pointer on the last account: removing the middle one moves the last
\* account, the pointer and the cursor down
C13_Witness ==
    /\ Len(accounts) = 3
    /\ cursor = 2
    /\ currentAccountIndexByFamily["claude"] = 2
    /\ DOMAIN accounts[3].rateLimitResetTimes # {}
    /\ LET r == removeAccount(Reg, 1)
       IN  /\ r.m.accounts[2].refreshToken = accounts[3].refreshToken
           /\ r.m.cursor = 1
           /\ r.m.currentAccountIndexByFamily["claude"] = 1

\* C14. removeAccount(i) with i < 0 or i >= accountCount returns false and
\* leaves the whole registry as it was: accounts, indices, rate-limit entries,
\* both sticky pointers and the cursor.
C14_InvalidRemoveNoOp ==
    \A i \in (-2..(MaxAccounts + 1)) \ (0..(Len(accounts) - 1)) :
        LET r == removeAccount(Reg, i)
        IN  /\ r.ret = FALSE
            /\ r.m = Reg

\* a store of two accounts with a rate-limit entry and an advanced cursor, for
\* which -1 and 2 are refused
C14_Witness ==
    /\ Len(accounts) = 2
    /\ Limited(accounts) >= 1
    /\ cursor >= 1
    /\ removeAccount(Reg, -1).ret = FALSE
    /\ removeAccount(Reg, 2).ret = FALSE

\* C15. Persistence round-trip: loadFromStorage(toStorageData()) yields a
\* registry with the same accounts in the same order (email, projectId,
\* refreshToken, addedAt, lastUsed), the same rate-limit entries per account
\* and the same sticky pointer for each family.
C15_RoundTrip ==
    LET r == loadFromStorage(Reg, toStorageData(Reg))
    IN  /\ r.ret # TypeError
        /\ Len(r.m.accounts) = Len(accounts)
        /\ \A p \in Positions(accounts) :
               /\ r.m.accounts[p].email = accounts[p].email
               /\ r.m.accounts[p].projectId = accounts[p].projectId
               /\ r.m.accounts[p].refreshToken = accounts[p].refreshToken
               /\ r.m.accounts[p].addedAt = accounts[p].addedAt
               /\ r.m.accounts[p].lastUsed = accounts[p].lastUsed
               /\ r.m.accounts[p].rateLimitResetTimes = accounts[p].rateLimitResetTimes
        /\ \A f \in Families :
               r.m.currentAccountIndexByFamily[f] = currentAccountIndexByFamily[f]

\* accounts with and without rate-limit entries, the two pointers on different
\* accounts, the cursor past the claude pointer: the reloaded registry has the
\* same accounts and pointers, and is not the same registry
C15_Witness ==
    /\ Len(accounts) >= 2
    /\ \E p, q \in Positions(accounts) :
           /\ DOMAIN accounts[p].rateLimitResetTimes # {}
           /\ DOMAIN accounts[q].rateLimitResetTimes = {}
    /\ currentAccountIndexByFamily["gemini"] > currentAccountIndexByFamily["claude"]
    /\ cursor > currentAccountIndexByFamily["claude"]
    /\ loadFromStorage(Reg, toStorageData(Reg)).m # Reg

\* persisted data of every length up to MaxAccounts, with stored indices from
\* below zero to beyond the end
LoadCases ==
    {NullData, StorageData(<< >>, -1, 2), StorageData(LimitedPair, 3, -1)} \cup
    {StorageData(Unlimited(n), c, MaxAccounts - c) :
        n \in {1, MaxAccounts}, c \in -2..(MaxAccounts + 2)}

\* p is max(0, stored) mod n, stated without the operators
WrappedTo(stored, n, p) ==
    /\ p \in 0..(n - 1)
    /\ IF stored < 0 THEN p = 0 ELSE \E k \in 0..stored : stored = k * n + p

\* C16. loadFromStorage(null), or with an empty accounts list, resets the
\* registry to the empty store with both pointers at -1, whatever it held
\* before; with n >= 1 accounts it sets account i's index to i, in the stored
\* order, and each family's pointer to max(0, storedIndex) mod n, negative and
\* out-of-range stored indices included.
C16_LoadRules ==
    \A data \in LoadCases :
        LET r == loadFromStorage(Reg, data)
            n == Len(data.accounts)
        IN  IF data.isNull \/ n = 0
            THEN r.m = EmptyRegistry
            ELSE /\ Len(r.m.accounts) = n
                 /\ \A i \in 1..n :
                        /\ r.m.accounts[i].index = i - 1
                        /\ r.m.accounts[i].refreshToken = data.accounts[i].refreshToken
                 /\ \A f \in Families :
                        WrappedTo(data.activeIndexByFamily[f], n,
                                  r.m.currentAccountIndexByFamily[f])

\* a store just loaded from data whose claude index was beyond the end and
\* whose gemini index was negative
C16_Witness ==
    /\ Len(accounts) = MaxAccounts
    /\ currentAccountIndexByFamily["claude"] = (MaxAccounts + 2) % MaxAccounts
    /\ currentAccountIndexByFamily["claude"] > 0
    /\ currentAccountIndexByFamily["gemini"] = 0
    /\ cursor = currentAccountIndexByFamily["claude"]
    /\ \A p \in Positions(accounts) :
           /\ accounts[p].accessToken = Undefined
           /\ accounts[p].lastSwitchReason = Undefined

\* C17. loadFromStorage never raises: given null, or a data object whose
\* accounts field is missing, it returns normally and leaves the registry as
\* the empty store.
C17_LoadNeverRaises ==
    \A data \in {NullData, CorruptData} :
        LET r == loadFromStorage(Reg, data)
        IN  /\ r.ret # TypeError
            /\ r.m = EmptyRegistry

\* the entries of an account that have not expired: resetTime > now
LiveEntries(account) ==
    LET times == account.rateLimitResetTimes
    IN  [k \in {j \in DOMAIN times : times[j] > now} |-> times[k]]

\* C18. Lazy expiry with purge-on-read: an operation that checks an account's
\* eligibility (getCurrentOrNextForFamily the sticky account, and every account
\* when it rotates; getNextForFamily every account; allAccountsRateLimited the
\* accounts up to the first eligible one; getAvailableHeaderStyle its argument)
\* decides as if the entries with resetTime <= now were absent, and when it
\* returns that account's map holds exactly the entries with resetTime > now.
C18_PurgeOnRead ==
    \A family \in Families :
        LET s == Sticky(family)
            c == getCurrentOrNextForFamily(Reg, family, now)
            n == getNextForFamily(Reg, family, now)
            e == allAccountsRateLimited(Reg, family, now)
            stays == s # 0 /\ ~RateLimitedFor(accounts[s], family, now)
        IN  /\ s # 0 => c.m.accounts[s].rateLimitResetTimes = LiveEntries(accounts[s])
            /\ (c.ret = s /\ s # 0) <=> stays
            /\ ~stays => \A p \in Positions(accounts) :
                             c.m.accounts[p].rateLimitResetTimes = LiveEntries(accounts[p])
            /\ \A p \in Positions(accounts) :
                   n.m.accounts[p].rateLimitResetTimes = LiveEntries(accounts[p])
            /\ IF Eligible(family) = {} THEN n.ret = Null ELSE n.ret \in Eligible(family)
            /\ \A p \in Positions(accounts) :
                   (\A q \in 1..(p - 1) : RateLimitedFor(accounts[q], family, now))
                   => e.m.accounts[p].rateLimitResetTimes = LiveEntries(accounts[p])
            /\ e.ret <=> (Eligible(family) = {})
            /\ \A a \in Positions(accounts) :
                   LET h == getAvailableHeaderStyle(Reg, a, family, now)
                   IN  /\ h.m.accounts[a].rateLimitResetTimes = LiveEntries(accounts[a])
                       /\ (h.ret = "null") <=> RateLimitedFor(accounts[a], family, now)

\* the sticky claude account holds a claude entry that expires at this very
\* instant and a later gemini one: the call returns it, without the claude
\* entry and with the other
C18_Witness ==
    \E p \in Positions(accounts) :
        /\ Sticky("claude") = p
        /\ "claude" \in DOMAIN accounts[p].rateLimitResetTimes
        /\ accounts[p].rateLimitResetTimes["claude"] = now
        /\ "gemini-cli" \in DOMAIN accounts[p].rateLimitResetTimes
        /\ accounts[p].rateLimitResetTimes["gemini-cli"] > now
        /\ LET c == getCurrentOrNextForFamily(Reg, "claude", now)
           IN  /\ c.ret = p
               /\ DOMAIN c.m.accounts[p].rateLimitResetTimes = {"gemini-cli"}

\* the registry that differs only by having every expired entry deleted
PurgedReg ==
    Registry([p \in Positions(accounts) |->
                 [accounts[p] EXCEPT !.rateLimitResetTimes = LiveEntries(accounts[p])]],
             cursor, currentAccountIndexByFamily)

\* C19. An expired entry that was not purged is semantically absent:
\* getMinWaitTime(F), allAccountsRateLimited(F), getAvailableHeaderStyle(A, F)
\* and getCurrentOrNextForFamily(F) return the same result as in the state that
\* differs only by having all expired entries deleted.
C19_ExpiredIsAbsent ==
    \A family \in Families :
        /\ getMinWaitTime(Reg, family, now).ret = getMinWaitTime(PurgedReg, family, now).ret
        /\ allAccountsRateLimited(Reg, family, now).ret
               = allAccountsRateLimited(PurgedReg, family, now).ret
        /\ getCurrentOrNextForFamily(Reg, family, now).ret
               = getCurrentOrNextForFamily(PurgedReg, family, now).ret
        /\ \A a \in Positions(accounts) :
               getAvailableHeaderStyle(Reg, a, family, now).ret
                   = getAvailableHeaderStyle(PurgedReg, a, family, now).ret

\* the quota pools of a family
Pools(family) ==
    IF family = "claude" THEN {"claude"} ELSE {"gemini-antigravity", "gemini-cli"}

\* the time left on every entry the accounts hold for the family's pools,
\* 0 for an entry whose reset time has passed
TimesLeft(family) ==
    {IF accounts[e[1]].rateLimitResetTimes[e[2]] > now
     THEN accounts[e[1]].rateLimitResetTimes[e[2]] - now
     ELSE 0 :
        e \in {pk \in Positions(accounts) \X Pools(family) :
                  pk[2] \in DOMAIN accounts[pk[1]].rateLimitResetTimes}}

AfterBothMarks(a, r, t2) ==
    markRateLimited(markRateLimited(Reg, a, r, "gemini", "antigravity", now).m,
                    a, r, "gemini", "gemini-cli", t2).m

\* what getAvailableHeaderStyle(a, gemini) returns when called at every moment
\* from t to last, one call after the other
RECURSIVE StylesFrom(_, _, _, _)
StylesFrom(m, a, t, last) ==
    IF t > last THEN << >>
    ELSE LET h == getAvailableHeaderStyle(m, a, "gemini", t)
         IN  <<h.ret>> \o StylesFrom(h.m, a, t + 1, last)

\* C21 (as stated). After markRateLimited(A, r, gemini, 'antigravity') followed
\* by markRateLimited(A, r, gemini, 'gemini-cli'), time possibly advancing
\* between the two, getAvailableHeaderStyle(A, gemini) returns null at every
\* moment until both reset times have elapsed.
C21_NullUntilBothElapse ==
    \A a \in Positions(accounts), r \in RetryAfterMs, t2 \in now..MaxTime :
        LET styles == StylesFrom(AfterBothMarks(a, r, t2), a, t2, t2 + r)
        IN  \A i \in 1..Len(styles) :
                (t2 + i - 1 < now + r \/ t2 + i - 1 < t2 + r) => styles[i] = "null"

\* C21 (amended). After the two calls getAvailableHeaderStyle(A, gemini)
\* returns null at every moment until the first of the two reset times has
\* elapsed, and 'antigravity' from then on.
C21_NullUntilFirstElapses ==
    \A a \in Positions(accounts), r \in RetryAfterMs, t2 \in now..MaxTime :
        LET styles == StylesFrom(AfterBothMarks(a, r, t2), a, t2, t2 + r)
        IN  \A i \in 1..Len(styles) :
                styles[i] = IF t2 + i - 1 < now + r THEN "null" ELSE "antigravity"

\* an account whose gemini-antigravity limit, set first, has elapsed while its
\* gemini-cli limit, set later, has not: the style is 'antigravity'
C21_Witness ==
    \E a \in Positions(accounts) :
        /\ DOMAIN accounts[a].rateLimitResetTimes = {"gemini-antigravity", "gemini-cli"}
        /\ accounts[a].rateLimitResetTimes["gemini-antigravity"] <= now
        /\ accounts[a].rateLimitResetTimes["gemini-cli"] > now
        /\ accounts[a].rateLimitResetTimes["gemini-cli"]
               = accounts[a].rateLimitResetTimes["gemini-antigravity"] + 1
        /\ getAvailableHeaderStyle(Reg, a, "gemini", now).ret = "antigravity"

\* the latest reset time a limit can have: the clock's end plus the longest retry
Horizon == MaxTime + 2

\* C22. Exhausted state: when accounts exist and all are rate-limited for F,
\* getCurrentOrNextForFamily(F) returns null and leaves both sticky pointers,
\* the cursor and every account's lastUsed and lastSwitchReason as they were;
\* at any later time at which the sticky account's limit has expired, no other
\* call having intervened, getCurrentOrNextForFamily(F) returns the sticky
\* account.
C22_ExhaustedFrame ==
    \A family \in Families :
        LET r == getCurrentOrNextForFamily(Reg, family, now)
            s == Sticky(family)
        IN  (Len(accounts) > 0 /\ Eligible(family) = {})
            => /\ r.ret = Null
               /\ r.m.currentAccountIndexByFamily = currentAccountIndexByFamily
               /\ r.m.cursor = cursor
               /\ Len(r.m.accounts) = Len(accounts)
               /\ \A p \in Positions(accounts) :
                      /\ r.m.accounts[p].lastUsed = accounts[p].lastUsed
                      /\ r.m.accounts[p].lastSwitchReason = accounts[p].lastSwitchReason
               /\ s # 0
               /\ \A t \in (now + 1)..Horizon :
                      ~RateLimitedFor(accounts[s], family, t)
                      => getCurrentOrNextForFamily(r.m, family, t).ret = s

\* two accounts, both limited for claude, the claude pointer on the second one,
\* whose limit ends after the first one's; the cursor has advanced
C22_Witness ==
    /\ Len(accounts) = 2
    /\ Eligible("claude") = {}
    /\ Sticky("claude") = 2
    /\ accounts[2].rateLimitResetTimes["claude"] > accounts[1].rateLimitResetTimes["claude"]
    /\ cursor >= 1
    /\ getCurrentOrNextForFamily(Reg, "claude", now).ret = Null

\* the step is a call of the method whose outcome is r, the clock standing still
CallOf(r) ==
    /\ Install(r.m)
    /\ now' = now

\* the step replaces or reindexes the store
StoreReplaced ==
    \/ LoadFromStorage(QuotaStorageInputs)
    \/ \E index \in 0..(Len(accounts) - 1) : CallOf(removeAccount(Reg, index))

\* the step is a markRateLimited of pool k of account a
MarkOf(a, k) ==
    \E retryAfterMs \in RetryAfterMs, family \in Families, headerStyle \in HeaderStyles :
        /\ getQuotaKey(family, headerStyle) = k
        /\ CallOf(markRateLimited(Reg, a, retryAfterMs, family, headerStyle, now))

C24_SinkNonInterference ==
    \A logger \in Loggers :
        LET same(with, without) ==
                /\ ~with.raised
                /\ with.ret = without.ret
                /\ with.m = without.m
        IN  /\ \A tokens \in TokenInputs :
                   same(addAccountWith(logger, Reg, tokens, now),
                        addAccountWith("none", Reg, tokens, now))
            /\ \A family \in Families :
                   same(getCurrentOrNextForFamilyWith(logger, Reg, family, now),
                        getCurrentOrNextForFamilyWith("none", Reg, family, now))
            /\ \A a \in Positions(accounts), r \in RetryAfterMs, family \in Families,
                  h \in HeaderStyles :
                   same(markRateLimitedWith(logger, Reg, a, r, family, h, now),
                        markRateLimitedWith("none", Reg, a, r, family, h, now))

\* C25. addAccount of a credential that matches no account appends it with
\* index = the previous count, lastUsed = 0 and no rate-limit entry; on an empty
\* store it sets both sticky pointers to 0, so that the next
\* getCurrentOrNextForFamily of either family returns it; on a non-empty store
\* it leaves both pointers, the cursor and every existing account as they were.
C25_AddNewAccount ==
    \A tokens \in TokenInputs :
        LET r == addAccount(Reg, tokens, now)
            n == Len(accounts)
        IN  Matches(tokens) = {}
            => /\ r.ret = n + 1
               /\ Len(r.m.accounts) = n + 1
               /\ r.m.accounts[n + 1].index = n
               /\ r.m.accounts[n + 1].lastUsed = 0
               /\ DOMAIN r.m.accounts[n + 1].rateLimitResetTimes = {}
               /\ r.m.accounts[n + 1].refreshToken = tokens.refresh_token
               /\ r.m.accounts[n + 1].email = tokens.email
               /\ \A p \in Positions(accounts) : r.m.accounts[p] = accounts[p]
               /\ r.m.cursor = cursor
               /\ IF n = 0
                  THEN \A family \in Families :
                           /\ r.m.currentAccountIndexByFamily[family] = 0
                           /\ getCurrentOrNextForFamily(r.m, family, now).ret = 1
                  ELSE r.m.currentAccountIndexByFamily = currentAccountIndexByFamily

\* two accounts with a pointer on the second one and an advanced cursor, to
\* which a third credential is added
C25_Witness ==
    /\ Len(accounts) = 2
    /\ currentAccountIndexByFamily["gemini"] = 1
    /\ cursor >= 1
    /\ Limited(accounts) >= 1
    /\ Matches(Tokens("e1", "r1", "p1")) = {}
    /\ addAccount(Reg, Tokens("e1", "r1", "p1"), now).ret = 3

\* every value the two sticky pointers can hold over the present accounts
PointerValues == [Families -> (NoAccount)..(Len(accounts) - 1)]

\* C26. getNextForFamily(F) neither reads nor changes a sticky pointer: with
\* any other pointer values its result, the accounts and the cursor come out
\* the same and the pointers come out as they went in; its result is null when
\* no account is eligible for F and an eligible account otherwise; on success
\* the cursor advances by 1 and only the returned account's lastUsed changes
\* (to now), on null neither the cursor nor any lastUsed changes; of the other
\* fields only expired rate-limit entries go.
C26_NextLeavesPointers ==
    \A family \in Families :
        LET r == getNextForFamily(Reg, family, now)
        IN  /\ r.m.currentAccountIndexByFamily = currentAccountIndexByFamily
            /\ \A pointers \in PointerValues :
                   LET q == getNextForFamily(Registry(accounts, cursor, pointers),
                                             family, now)
                   IN  /\ q.ret = r.ret
                       /\ q.m.accounts = r.m.accounts
                       /\ q.m.cursor = r.m.cursor
                       /\ q.m.currentAccountIndexByFamily = pointers
            /\ (r.ret = Null) <=> (Eligible(family) = {})
            /\ r.ret # Null => /\ r.ret \in Eligible(family)
                               /\ r.m.cursor = cursor + 1
                               /\ r.m.accounts[r.ret].lastUsed = now
            /\ r.ret = Null => r.m.cursor = cursor
            /\ Len(r.m.accounts) = Len(accounts)
            /\ \A p \in Positions(accounts) :
                   /\ p # r.ret => r.m.accounts[p].lastUsed = accounts[p].lastUsed
                   /\ r.m.accounts[p] =
                          [accounts[p] EXCEPT
                              !.lastUsed = r.m.accounts[p].lastUsed,
                              !.rateLimitResetTimes = LiveEntries(accounts[p])]

\* the rotation step returns the second account at a later time than its last
\* use while the pointer of the family designates the first one
C26_Witness ==
    /\ Len(accounts) = 2
    /\ now > accounts[2].lastUsed
    /\ cursor >= 1
    /\ currentAccountIndexByFamily["gemini"] = 0
    /\ getNextForFamily(Reg, "gemini", now).ret = 2

\* the pool a limit reported for (family, headerStyle) belongs to
PoolOf(family, headerStyle) ==
    CASE family = "claude" -> "claude"
      [] family = "gemini" /\ headerStyle = "gemini-cli" -> "gemini-cli"
      [] family = "gemini" /\ headerStyle = "antigravity" -> "gemini-antigravity"

\* C27. markRateLimited(A, r, F, h) sets exactly one entry of A, the one of
\* the pool of (F, h), to now + r, whatever the entry held before (a later
\* reset time included); the other entries of A, every other account, both
\* sticky pointers and the cursor are unchanged.
C27_MarkSetsOneEntry ==
    \A a \in Positions(accounts), retry \in RetryAfterMs,
       family \in Families, h \in HeaderStyles :
        LET r == markRateLimited(Reg, a, retry, family, h, now)
            old == accounts[a].rateLimitResetTimes
            new == r.m.accounts[a].rateLimitResetTimes
            key == PoolOf(family, h)
        IN  /\ DOMAIN new = DOMAIN old \cup {key}
            /\ new[key] = now + retry
            /\ \A k \in DOMAIN old \ {key} : new[k] = old[k]
            /\ r.m.accounts[a] = [accounts[a] EXCEPT !.rateLimitResetTimes = new]
            /\ Len(r.m.accounts) = Len(accounts)
            /\ \A p \in Positions(accounts) \ {a} : r.m.accounts[p] = accounts[p]
            /\ r.m.currentAccountIndexByFamily = currentAccountIndexByFamily
            /\ r.m.cursor = cursor

\* after some time the first of two accounts holds a claude entry later than
\* now + 1 and an entry of another pool, and is marked for claude with delay 1
C27_Witness ==
    /\ Len(accounts) = 2
    /\ now >= 1
    /\ DOMAIN accounts[1].rateLimitResetTimes = {"claude", "gemini-cli"}
    /\ accounts[1].rateLimitResetTimes["claude"] > now + 1
    /\ markRateLimited(Reg, 1, 1, "claude", "gemini-cli", now)
           .m.accounts[1].rateLimitResetTimes["claude"] = now + 1

\* C28. Family-level eligibility and header-style availability are in
\* lock-step: for every account A and family F, getAvailableHeaderStyle(A, F)
\* is null iff A is rate-limited for F, and every account returned by
\* getCurrentOrNextForFamily(F) has a non-null getAvailableHeaderStyle(A, F)
\* at that same time.
C28_LockStep ==
    \A family \in Families :
        /\ \A a \in Positions(accounts) :
               /\ (getAvailableHeaderStyle(Reg, a, family, now).ret = "null")
                      <=> isRateLimitedForFamily(accounts[a], family, now)
               /\ isRateLimitedForFamily(accounts[a], family, now)
                      <=> RateLimitedFor(accounts[a], family, now)
        /\ LET r == getCurrentOrNextForFamily(Reg, family, now)
           IN  r.ret # Null
                   => getAvailableHeaderStyle(r.m, r.ret, family, now).ret # "null"

\* the selection for gemini returns an account whose gemini-antigravity pool
\* is closed, and the style left for it is gemini-cli, while some account has
\* no style left for claude
C28_Witness ==
    LET r == getCurrentOrNextForFamily(Reg, "gemini", now)
    IN  /\ r.ret # Null
        /\ ~PoolOpen(accounts[r.ret], "gemini-antigravity", now)
        /\ getAvailableHeaderStyle(r.m, r.ret, "gemini", now).ret = "gemini-cli"
        /\ \E a \in Positions(accounts) :
               getAvailableHeaderStyle(Reg, a, "claude", now).ret = "null"

\* no account of a non-empty store is eligible for the family
Exhausted(family) == Len(accounts) > 0 /\ Eligible(family) = {}

\* when the store is exhausted for F, getMinWaitTime(F) is positive and
\* getCurrentOrNextForFamily(F) at any time from now + getMinWaitTime(F) on
\* returns an account; whenever some account is eligible it returns one
RecoveryAfterWait ==
    \A family \in Families :
        /\ Exhausted(family)
               => LET w == getMinWaitTime(Reg, family, now).ret
                  IN  /\ w > 0
                      /\ \A t \in (now + w)..Horizon :
                             getCurrentOrNextForFamily(Reg, family, t).ret # Null
        /\ Eligible(family) # {}
               => getCurrentOrNextForFamily(Reg, family, now).ret # Null

\* C29. Recovery from exhaustion: when accounts exist and all are rate-limited
\* for F, getMinWaitTime(F) is strictly positive, and once time has advanced
\* by at least getMinWaitTime(F), nothing else having limited, removed or
\* reloaded accounts, getCurrentOrNextForFamily(F) returns an account; under a
\* clock that keeps advancing the exhausted state is always eventually left.
C29_Recovery ==
    /\ []RecoveryAfterWait
    /\ \A family \in Families : Exhausted(family) ~> (Eligible(family) # {})

\* both accounts are rate-limited for claude, the earlier limit ends one tick
\* from now and the clock can reach it
C29_Witness ==
    /\ Len(accounts) = 2
    /\ Exhausted("claude")
    /\ getMinWaitTime(Reg, "claude", now).ret = 1
    /\ accounts[1].rateLimitResetTimes["claude"] # accounts[2].rateLimitResetTimes["claude"]
    /\ now + 1 <= MaxTime
    /\ getCurrentOrNextForFamily(Reg, "claude", now).ret = Null
    /\ getCurrentOrNextForFamily(Reg, "claude", now + 1).ret # Null

\* the delays after which some account is eligible for the family
WaitsUntilEligible(family) ==
    {d \in 0..Horizon :
        \E p \in Positions(accounts) : ~RateLimitedFor(accounts[p], family, now + d)}

\* C30. getMinWaitTime(F) is the minimum wait until an account becomes
\* available for F: 0 whenever at least one account of a non-empty store is
\* not rate-limited for F now, and otherwise the time until the earliest
\* moment at which some account becomes eligible for F.
C30_MinWaitMeaning ==
    \A family \in Families :
        Len(accounts) > 0
            => getMinWaitTime(Reg, family, now).ret = SetMin(WaitsUntilEligible(family))

\* C31. removeAccount(i) of an account that is not family F's sticky account
\* leaves F's sticky pointer on the same account, at its new position; when i
\* is F's sticky account the pointer moves to the account that preceded it, or
\* to the new first account when i = 0, and to the sentinel when the store
\* becomes empty.
C31_PointerAfterRemove ==
    \A i \in 0..(Len(accounts) - 1), family \in Families :
        LET r == removeAccount(Reg, i)
            old == currentAccountIndexByFamily[family]
            new == r.m.currentAccountIndexByFamily[family]
            moved(from) == [accounts[from + 1] EXCEPT !.index = new]
        IN  IF old # i
            THEN /\ new + 1 = AfterSplice(old + 1, i)
                 /\ new + 1 \in Positions(r.m.accounts)
                 /\ r.m.accounts[new + 1] = moved(old)
            ELSE IF Len(accounts) = 1
            THEN new = NoAccount
            ELSE IF i = 0
            THEN new = 0 /\ r.m.accounts[1] = moved(1)
            ELSE new = i - 1 /\ r.m.accounts[new + 1] = moved(i - 1)

\* of three accounts the second is removed while it is gemini's sticky account
\* and the third is claude's
C31_Witness ==
    /\ Len(accounts) = 3
    /\ currentAccountIndexByFamily["claude"] = 2
    /\ currentAccountIndexByFamily["gemini"] = 1
    /\ removeAccount(Reg, 1).m.currentAccountIndexByFamily
           = [f \in Families |-> IF f = "claude" THEN 1 ELSE 0]

====
